---- MODULE Spec2Model ----
(***************************************************************************)
(* borgbackup.py: btrfs snapshots, borg backups and generational pruning.  *)
(*                                                                         *)
(* Two specifications share the variables and the actions of               *)
(* prune_snapshots:                                                        *)
(*   SpecRetention  prune_snapshots applied (and applied again) to a       *)
(*                  directory of snapshots of one subvolume;               *)
(*   Spec           a whole run of the script (__main__).                  *)
(***************************************************************************)
EXTENDS Integers, Sequences, FiniteSets, TLC

VARIABLES
    pc,                   \* position of the program
    now,                  \* now = int(time())
    wanted_snapshots,     \* prune_snapshots: the flat list of labels
    dir,                  \* entries of snapshot_dir (names of snapshots)
    snapshots,            \* prune_snapshots: the list of names it is given
    actual_timestamps,    \* prune_snapshots: timestamps not yet claimed
    keep_timestamps,      \* prune_snapshots: timestamps claimed so far
    last_kept_timestamp,  \* prune_snapshots: the anchor of the targets
    next_idx,             \* position of "for next_snapshot in wanted_snapshots"
    del_idx,              \* position of the second "for s in snapshots"
    targets,              \* history: target_timestamp of every lookup of this call
    prev_snapshots,       \* history: the list given to the previous call
    prev_keep,            \* history: keep_timestamps of the previous call
    round,                \* history: number of calls of prune_snapshots so far
    calls,                \* history: the external commands run, in order
    backup_only,          \* args.backup_only, as a set ({} when not given)
    snapshot_dir_mounted, \* is_mountpoint(snapshot_dir)
    i,                    \* position of "for name, backup_config in config.items()"
    backup_config,        \* the fields the run adds to each target's config
    messages,             \* messages
    emitted               \* history: the warnings repeated at the end of the run

prune_vars == <<now, wanted_snapshots, snapshots, actual_timestamps,
                keep_timestamps, last_kept_timestamp, next_idx, del_idx,
                targets, prev_snapshots, prev_keep, round>>

run_vars == <<backup_only, snapshot_dir_mounted, i, backup_config, messages, emitted>>

vars == <<pc, dir, calls, prune_vars, run_vars>>

----------------------------------------------------------------------------
(* Bounds of the model *)

\* longest directory whose every listing order is explored
MaxSnapshots == 3
\* longest regular series of snapshots (listed ascending or descending)
MaxSeries == 18

\* number of targets in the configuration file
NumTargets == 2

----------------------------------------------------------------------------
(* Inputs *)

\* values of int(time()): a little more than one day after the epoch, the
\* scenario of the specification, fourteen days after the epoch, and a
\* present-day clock
Nows == {100000, 1000000, 1209600, 4838401, 1600000000}

\* ages (now - timestamp) of the snapshots of the small directories
Ages == {0, 100, 21600, 87000, 172800, 605000}

\* interval of the regular series of snapshots: six hours
SeriesStep == 6 * 60 * 60

----------------------------------------------------------------------------
(* Constants of the program *)

time_intervals == [day |-> 60*60*24, week |-> 60*60*24*7, month |-> 60*60*24*7*4]

daily == 7
weekly == 4
monthly == 6

\* Python's None, as returned by closest; a found timestamp t is <<t>>
None == << >>

----------------------------------------------------------------------------
(* Helpers *)

Range(s) == {s[k] : k \in 1..Len(s)}

abs(x) == IF x < 0 THEN -x ELSE x

Repeat(x, n) == [k \in 1..n |-> x]

\* mutant of remove: the claimed timestamp stays in the pool
remove_nothing(list, x) == list

\* mutant of remove: the head of the pool is dropped, whatever was claimed
remove_first(list, x) == Tail(list)

\* list.remove(x): drops the first occurrence of x
RECURSIVE remove(_, _)
remove(list, x) ==
    IF list = << >> THEN << >>
    ELSE IF Head(list) = x THEN Tail(list)
    ELSE <<Head(list)>> \o remove(Tail(list), x)

\* "not v" for a value returned by closest: None and 0 are both false
Falsy(v) == v = None \/ v = <<0>>

\* every order of the elements of a finite set
RECURSIVE Perms(_)
Perms(S) ==
    IF S = {} THEN {<< >>}
    ELSE UNION {{<<x>> \o p : p \in Perms(S \ {x})} : x \in S}

\* a snapshot name <subvolume_name>-<timestamp>
Name(subvolume_name, t) == <<subvolume_name, t>>

\* int(generic_subvolume_regex.sub(r'\1', s)): the digits after the last "-"
timestamp_of(s) == s[2]

----------------------------------------------------------------------------
(* closest *)

\* mutant of closest_for: best_distance is not updated with best
RECURSIVE closest_for_stale(_, _, _, _)
closest_for_stale(target, list, best, best_distance) ==
    IF list = << >> THEN best
    ELSE IF abs(target - Head(list)) < best_distance
         THEN closest_for_stale(target, Tail(list), Head(list), best_distance)
         ELSE closest_for_stale(target, Tail(list), best, best_distance)

\* mutant of closest_for: "<=" for "<", a later candidate at equal distance
\* replaces an earlier one
RECURSIVE closest_for_last(_, _, _, _)
closest_for_last(target, list, best, best_distance) ==
    IF list = << >> THEN best
    ELSE IF abs(target - Head(list)) <= best_distance
         THEN closest_for_last(target, Tail(list), Head(list), abs(target - Head(list)))
         ELSE closest_for_last(target, Tail(list), best, best_distance)

\* lines 27-34: the loop of closest, from the candidate at the head of list
RECURSIVE closest_for(_, _, _, _)
closest_for(target, list, best, best_distance) ==
    IF list = << >> THEN best
    ELSE LET current == Head(list)
             distance == abs(target - current)
         IN IF distance < best_distance
            THEN closest_for(target, Tail(list), current, distance)
            ELSE closest_for(target, Tail(list), best, best_distance)

\* lines 26-37
closest(target, list) ==
    LET best == closest_for(target, list, 0, target)
    IN IF best # 0 THEN <<best>> ELSE None

----------------------------------------------------------------------------
(* prune_snapshots *)

WantedSnapshots(d, w, m) ==
    Repeat("day", d) \o Repeat("week", w) \o Repeat("month", m)

\* lines 139-146: the locals at the entry of the loop over wanted_snapshots
prune_snapshots_call(list) ==
    /\ snapshots' = list
    /\ actual_timestamps' = [k \in 1..Len(list) |-> timestamp_of(list[k])]
    /\ last_kept_timestamp' = now
    /\ keep_timestamps' = << >>
    /\ next_idx' = 1
    /\ del_idx' = 1
    /\ targets' = << >>
    /\ prev_snapshots' = snapshots
    /\ prev_keep' = keep_timestamps
    /\ round' = round + 1
    /\ pc' = IF Len(wanted_snapshots) = 0 THEN "prune_delete" ELSE "prune_loop"

\* mutant of prune_loop: a label without a usable candidate is skipped and
\* the loop goes on with the next label
prune_loop_skip ==
    /\ pc = "prune_loop"
    /\ LET target_timestamp ==
               last_kept_timestamp - time_intervals[wanted_snapshots[next_idx]]
           closest_timestamp == closest(target_timestamp, actual_timestamps)
       IN /\ targets' = Append(targets, target_timestamp)
          /\ IF Falsy(closest_timestamp)
             THEN UNCHANGED <<actual_timestamps, keep_timestamps>>
             ELSE /\ actual_timestamps' = remove(actual_timestamps, closest_timestamp[1])
                  /\ keep_timestamps' = Append(keep_timestamps, closest_timestamp[1])
          /\ next_idx' = next_idx + 1
          /\ pc' = IF next_idx + 1 > Len(wanted_snapshots)
                   THEN "prune_delete" ELSE "prune_loop"
    /\ UNCHANGED <<now, wanted_snapshots, snapshots, last_kept_timestamp,
                   del_idx, prev_snapshots, prev_keep, round>>
    /\ UNCHANGED <<dir, calls, backup_only, snapshot_dir_mounted, i,
                   backup_config, messages, emitted>>

\* mutant of prune_loop: the anchor advances to the timestamp just kept
prune_loop_advancing ==
    /\ pc = "prune_loop"
    /\ LET target_timestamp ==
               last_kept_timestamp - time_intervals[wanted_snapshots[next_idx]]
           closest_timestamp == closest(target_timestamp, actual_timestamps)
       IN /\ targets' = Append(targets, target_timestamp)
          /\ IF Falsy(closest_timestamp)
             THEN /\ pc' = "prune_delete"
                  /\ UNCHANGED <<actual_timestamps, keep_timestamps, next_idx,
                                 last_kept_timestamp>>
             ELSE /\ actual_timestamps' = remove(actual_timestamps, closest_timestamp[1])
                  /\ keep_timestamps' = Append(keep_timestamps, closest_timestamp[1])
                  /\ last_kept_timestamp' = closest_timestamp[1]
                  /\ next_idx' = next_idx + 1
                  /\ pc' = IF next_idx + 1 > Len(wanted_snapshots)
                           THEN "prune_delete" ELSE "prune_loop"
    /\ UNCHANGED <<now, wanted_snapshots, snapshots, del_idx, prev_snapshots,
                   prev_keep, round>>
    /\ UNCHANGED <<dir, calls, backup_only, snapshot_dir_mounted, i,
                   backup_config, messages, emitted>>

\* lines 147-154: one iteration of "for next_snapshot in wanted_snapshots"
prune_loop ==
    /\ pc = "prune_loop"
    /\ LET next_snapshot == wanted_snapshots[next_idx]
           target_timestamp == last_kept_timestamp - time_intervals[next_snapshot]
           closest_timestamp == closest(target_timestamp, actual_timestamps)
       IN /\ targets' = Append(targets, target_timestamp)
          /\ IF Falsy(closest_timestamp)
             THEN /\ pc' = "prune_delete"
                  /\ UNCHANGED <<actual_timestamps, keep_timestamps, next_idx>>
             ELSE /\ actual_timestamps' = remove(actual_timestamps, closest_timestamp[1])
                  /\ keep_timestamps' = Append(keep_timestamps, closest_timestamp[1])
                  /\ next_idx' = next_idx + 1
                  /\ pc' = IF next_idx + 1 > Len(wanted_snapshots)
                           THEN "prune_delete" ELSE "prune_loop"
    /\ UNCHANGED <<now, wanted_snapshots, snapshots, last_kept_timestamp,
                   del_idx, prev_snapshots, prev_keep, round>>
    /\ UNCHANGED <<dir, calls, run_vars>>

\* mutant of not_kept: nothing is found to be pruned
not_kept_never(t, keep) == FALSE

\* mutant of not_kept: the test of line 158 inverted
not_kept_inverted(t, keep) == t \in Range(keep)

\* line 158: "if t not in keep_timestamps"
not_kept(t, keep) == t \notin Range(keep)

\* lines 156-161: one iteration of the second "for s in snapshots";
\* run(..., check=True) raises when btrfs subvolume delete fails
prune_delete ==
    /\ pc = "prune_delete"
    /\ del_idx <= Len(snapshots)
    /\ LET s == snapshots[del_idx]
           t == timestamp_of(s)
       IN IF ~not_kept(t, keep_timestamps)
          THEN /\ del_idx' = del_idx + 1
               /\ UNCHANGED <<pc, dir, calls>>
          ELSE \E ok \in BOOLEAN :
                 /\ calls' = Append(calls, <<"delete", s, ok>>)
                 /\ IF ok
                    THEN /\ dir' = dir \ {s}
                         /\ del_idx' = del_idx + 1
                         /\ UNCHANGED pc
                    ELSE /\ pc' = "raise:prune_snapshots"
                         /\ UNCHANGED <<dir, del_idx>>
    /\ UNCHANGED <<now, wanted_snapshots, snapshots, actual_timestamps,
                   keep_timestamps, last_kept_timestamp, next_idx,
                   targets, prev_snapshots, prev_keep, round>>
    /\ UNCHANGED run_vars

\* the characters of a subvolume name
Chars(name) ==
    CASE name = "ROOT" -> <<"R", "O", "O", "T">>
      [] name = "var_log" -> <<"v", "a", "r", "_", "l", "o", "g">>
      [] name = "var.log" -> <<"v", "a", "r", ".", "l", "o", "g">>

\* line 246: re.compile(r'^' + subvolume_name + r'-(\d+)$').match on the part
\* of a file name before its "-<digits>": the name goes into the pattern
\* unescaped, and "." in a pattern matches any character
regex_match(pattern, string) ==
    /\ Len(pattern) = Len(string)
    /\ \A k \in 1..Len(pattern) : pattern[k] = "." \/ pattern[k] = string[k]

\* line 247: listdir(snapshot_dir) filtered by subvolume_regex
matching(entries, subvolume_name) ==
    {s \in entries : regex_match(Chars(subvolume_name), Chars(s[1]))}

RECURSIVE Ascending(_)
Ascending(S) ==
    IF S = {} THEN << >>
    ELSE LET m == CHOOSE x \in S : \A y \in S : timestamp_of(x) <= timestamp_of(y)
         IN <<m>> \o Ascending(S \ {m})

Reverse(s) == [k \in 1..Len(s) |-> s[Len(s) + 1 - k]]

\* listdir returns the entries in arbitrary order: every order of a short
\* directory, the two sorted orders of a long one
listdir_orders(S) ==
    IF Cardinality(S) <= MaxSnapshots THEN Perms(S)
    ELSE {Ascending(S), Reverse(Ascending(S))}

----------------------------------------------------------------------------
(* SpecRetention: prune_snapshots on the snapshots of one subvolume *)

\* the counts (daily, weekly, monthly) of the script, and those of the
\* scenario of the specification: 2 daily labels and 1 weekly label
Policies == {<<daily, weekly, monthly>>, <<2, 1, 0>>}

\* the names match \d+: no timestamp is negative
SmallDirs(n) ==
    {S \in SUBSET ({t \in {n - a : a \in Ages} : t >= 0} \cup {0}) :
        Cardinality(S) <= MaxSnapshots}

\* now, now - 6h, now - 12h, ... with at most one of them missing
SeriesDirs(n) ==
    {{t \in {n - k * SeriesStep : k \in (0..(len - 1)) \ {skip}} : t >= 0} :
        len \in 0..MaxSeries, skip \in 0..MaxSeries}

\* the snapshot taken at now, and older ones taken every 6h at 3h past now's
\* phase: now - 3h, now - 9h, ...
PhasedDirs(n) ==
    {{n} \cup {t \in {n - SeriesStep \div 2 - k * SeriesStep : k \in 0..(len - 1)} : t >= 0} :
        len \in 1..MaxSeries}

RetInit ==
    /\ pc = "idle"
    /\ now \in Nows
    /\ \E p \in Policies : wanted_snapshots = WantedSnapshots(p[1], p[2], p[3])
    /\ \E S \in SmallDirs(now) \cup SeriesDirs(now) \cup PhasedDirs(now) :
          dir = {Name("ROOT", t) : t \in S}
    /\ snapshots = << >>
    /\ actual_timestamps = << >>
    /\ keep_timestamps = << >>
    /\ last_kept_timestamp = now
    /\ next_idx = 1
    /\ del_idx = 1
    /\ targets = << >>
    /\ prev_snapshots = << >>
    /\ prev_keep = << >>
    /\ round = 0
    /\ calls = << >>
    /\ backup_only = {}
    /\ snapshot_dir_mounted = TRUE
    /\ i = 0
    /\ backup_config = << >>
    /\ messages = << >>
    /\ emitted = << >>

\* prune_snapshots is called on the directory, and once more on what it left
ret_call ==
    /\ pc \in {"idle", "returned"}
    /\ round < 2
    /\ \E list \in listdir_orders(matching(dir, "ROOT")) : prune_snapshots_call(list)
    /\ UNCHANGED <<now, wanted_snapshots, dir, calls, run_vars>>

ret_return ==
    /\ pc = "prune_delete"
    /\ del_idx > Len(snapshots)
    /\ pc' = "returned"
    /\ UNCHANGED <<dir, calls, prune_vars, run_vars>>

\* the most recent snapshot of a listing
Latest(list) ==
    CHOOSE s \in Range(list) :
        \A u \in Range(list) : timestamp_of(u) <= timestamp_of(s)

\* after the first call: the directory as the first call found it, without
\* its most recent snapshot
ret_restore ==
    /\ pc = "returned"
    /\ round = 1
    /\ snapshots # << >>
    /\ dir' = Range(snapshots) \ {Latest(snapshots)}
    /\ round' = 2
    /\ pc' = "restored"
    /\ UNCHANGED <<now, wanted_snapshots, snapshots, actual_timestamps,
                   keep_timestamps, last_kept_timestamp, next_idx, del_idx,
                   targets, prev_snapshots, prev_keep>>
    /\ UNCHANGED <<calls, run_vars>>

\* prune_snapshots is called on that directory: the third computation
ret_call_restored ==
    /\ pc = "restored"
    /\ \E list \in listdir_orders(matching(dir, "ROOT")) : prune_snapshots_call(list)
    /\ UNCHANGED <<now, wanted_snapshots, dir, calls, run_vars>>

RetNext ==
    \/ ret_call
    \/ prune_loop
    \/ prune_delete
    \/ ret_return
    \/ ret_restore
    \/ ret_call_restored

SpecRetention == RetInit /\ [][RetNext]_vars

----------------------------------------------------------------------------
(* Spec: a run of the script *)

\* the keys of the configuration file, in the order of config.items()
config_names == SubSeq(<<"a", "b", "c", "d">>, 1, NumTargets)

\* backup_config["mountpoint"] of the target called name
mountpoint(name) == <<"mountpoint", name>>

\* line 23
snapshotable_fstypes == {"btrfs"}

\* what psutil reports for a mount point
FsTypes == {"btrfs", "ext4"}

\* lines 44-55: the first line of "btrfs subvolume show" for a mount point,
\* the path of the subvolume mounted there
subvolume_from_mountpoint(mp) ==
    CASE mp = mountpoint("a") -> "var.log"
      [] mp = mountpoint("b") -> "var/log"
      [] OTHER -> "/"

\* lines 58-62: "/" replaced by "_", and ROOT for the top-level subvolume
subvolume_name_from_subvolume(subvolume) ==
    LET name == CASE subvolume = "/" -> "_"
                  [] subvolume = "var/log" -> "var_log"
                  [] OTHER -> subvolume
    IN IF name = "_" THEN "ROOT" ELSE name

\* lines 209 and 232: "if args.backup_only and name not in args.backup_only"
skipped(name) == backup_only # {} /\ name \notin backup_only

\* lines 227-228
UnsupportedMessage(fstype, mp) == <<"not supported", fstype, mp>>

\* lines 239-240
BackupMessage(name) == <<"backup failed", name>>

\* the keys the run has not added to a target's config yet
Unresolved == [fstype |-> "", subvolume_name |-> "", snapshot |-> None]

\* the snapshots a run finds: none, a few recent ones of two subvolumes, a
\* six-hourly series of one subvolume, or more of them than the policy keeps
RunDirs(n) ==
    { {},
      {Name("var.log", n - 87000), Name("var.log", n - 100), Name("var_log", n - 87000)},
      {Name("var_log", n - k * SeriesStep) : k \in 1..9},
      {Name("var.log", 0), Name("ROOT", n - 100)},
      {Name("var.log", n - k * SeriesStep) : k \in 1..9},
      {Name("var.log", n - k * SeriesStep) : k \in 1..(MaxSeries + 2)} }

\* int(time()) at the start of the first run
RunNows == {1000000, 1600000000}

Init ==
    /\ pc = "start"
    /\ now \in RunNows
    /\ wanted_snapshots = WantedSnapshots(daily, weekly, monthly)
    /\ dir \in RunDirs(now)
    /\ snapshots = << >>
    /\ actual_timestamps = << >>
    /\ keep_timestamps = << >>
    /\ last_kept_timestamp = now
    /\ next_idx = 1
    /\ del_idx = 1
    /\ targets = << >>
    /\ prev_snapshots = << >>
    /\ prev_keep = << >>
    /\ round = 0
    /\ calls = << >>
    /\ backup_only \in SUBSET Range(config_names)
    /\ snapshot_dir_mounted \in BOOLEAN
    /\ i = 1
    /\ backup_config = [name \in Range(config_names) |-> Unresolved]
    /\ messages = << >>
    /\ emitted = << >>

\* the uncaught exceptions that end a run with a non-zero exit status
Raises == {"raise:snapshot_dir", "raise:filesystem_type",
           "raise:subvolume_from_mountpoint", "raise:snapshot", "raise:backup",
           "raise:prune_backups", "raise:prune_snapshots"}

\* lines 193-205
start ==
    /\ pc = "start"
    /\ pc' = IF snapshot_dir_mounted THEN "phase1" ELSE "raise:snapshot_dir"
    /\ UNCHANGED <<dir, calls, prune_vars, run_vars>>

\* mutant of phase1_next: one loop instead of two, the backup of a target
\* follows its snapshot
phase1_next_interleaved ==
    /\ i' = i
    /\ pc' = "phase2"

\* the end of an iteration of the loop of line 208
phase1_next ==
    /\ i' = IF i + 1 > NumTargets THEN 1 ELSE i + 1
    /\ pc' = IF i + 1 > NumTargets THEN "phase2" ELSE "phase1"

\* lines 208-210: a target the filter leaves out
phase1_skip ==
    /\ pc = "phase1"
    /\ skipped(config_names[i])
    /\ phase1_next
    /\ UNCHANGED <<dir, calls, prune_vars, backup_only, snapshot_dir_mounted,
                   backup_config, messages, emitted>>

\* lines 212-217: filesystem_type raises unless exactly one partition matches
phase1_no_fstype ==
    /\ pc = "phase1"
    /\ ~skipped(config_names[i])
    /\ \E partitions \in {0, 2} : pc' = "raise:filesystem_type"
    /\ UNCHANGED <<dir, calls, prune_vars, run_vars>>

\* mutant of after_failed_snapshot: the return code of btrfs is not checked
after_failed_snapshot_unchecked ==
    /\ phase1_next
    /\ UNCHANGED dir

\* what follows a failed btrfs subvolume snapshot: run(..., check=True) raises
after_failed_snapshot ==
    /\ pc' = "raise:snapshot"
    /\ UNCHANGED <<dir, i>>

\* lines 212-225: a target on a snapshotable filesystem; subvolume_from_mountpoint
\* and snapshot raise when btrfs fails, and btrfs cannot create a snapshot
\* where an entry of that name exists
phase1_snapshot ==
    /\ pc = "phase1"
    /\ ~skipped(config_names[i])
    /\ \E fstype \in FsTypes, subvolume_ok \in BOOLEAN, ok \in BOOLEAN :
        LET name == config_names[i]
            subvolume == subvolume_from_mountpoint(mountpoint(name))
            subvolume_name == subvolume_name_from_subvolume(subvolume)
            path == Name(subvolume_name, now)
        IN /\ fstype \in snapshotable_fstypes
           /\ IF ~subvolume_ok
              THEN /\ pc' = "raise:subvolume_from_mountpoint"
                   /\ backup_config' = [backup_config EXCEPT ![name].fstype = fstype]
                   /\ UNCHANGED <<dir, calls, i>>
              ELSE /\ backup_config' = [backup_config EXCEPT ![name] =
                        [fstype |-> fstype, subvolume_name |-> subvolume_name,
                         snapshot |-> path]]
                   /\ calls' = Append(calls, <<"snapshot", name, ok /\ path \notin dir>>)
                   /\ IF ok /\ path \notin dir
                      THEN /\ dir' = dir \cup {path}
                           /\ phase1_next
                      ELSE after_failed_snapshot
    /\ UNCHANGED <<prune_vars, backup_only, snapshot_dir_mounted, messages, emitted>>

\* mutant of phase1_unsupported: the warning is logged but not recorded
phase1_unsupported_silent ==
    /\ pc = "phase1"
    /\ ~skipped(config_names[i])
    /\ \E fstype \in FsTypes :
        /\ fstype \notin snapshotable_fstypes
        /\ backup_config' = [backup_config EXCEPT ![config_names[i]].fstype = fstype]
    /\ phase1_next
    /\ UNCHANGED <<dir, calls, prune_vars, backup_only, snapshot_dir_mounted,
                   messages, emitted>>

\* lines 212-219 and 226-229: a target on another filesystem
phase1_unsupported ==
    /\ pc = "phase1"
    /\ ~skipped(config_names[i])
    /\ \E fstype \in FsTypes :
        LET name == config_names[i]
        IN /\ fstype \notin snapshotable_fstypes
           /\ backup_config' = [backup_config EXCEPT ![name].fstype = fstype]
           /\ messages' = Append(messages, UnsupportedMessage(fstype, mountpoint(name)))
    /\ phase1_next
    /\ UNCHANGED <<dir, calls, prune_vars, backup_only, snapshot_dir_mounted, emitted>>

\* the end of an iteration of the loop of line 231
phase2_next ==
    /\ i' = i + 1
    /\ pc' = IF i + 1 > NumTargets THEN "summary" ELSE "phase2"

\* lines 231-233
phase2_skip ==
    /\ pc = "phase2"
    /\ skipped(config_names[i])
    /\ phase2_next
    /\ UNCHANGED <<dir, calls, prune_vars, backup_only, snapshot_dir_mounted,
                   backup_config, messages, emitted>>

\* mutant of after_failed_backup: borg create is run with check=True
after_failed_backup_raises(name) ==
    /\ UNCHANGED messages
    /\ pc' = "raise:backup"

\* mutant of after_failed_backup: the backup of the target is tried again
after_failed_backup_retried(name) ==
    /\ messages' = Append(messages, BackupMessage(name))
    /\ pc' = "phase2"

\* lines 238-241: what follows a backup that returned a non-zero code
after_failed_backup(name) ==
    /\ messages' = Append(messages, BackupMessage(name))
    /\ pc' = "prune_backups"

\* lines 235-241 with backup (lines 74-101): borg create runs in the snapshot,
\* or in the mount point when there is none; run raises when borg cannot be
\* started, as when its working directory is not there
phase2_backup ==
    /\ pc = "phase2"
    /\ ~skipped(config_names[i])
    /\ \E result \in {"ok", "failed", "raised"} :
        LET name == config_names[i]
            snapshot == backup_config[name].snapshot
            cwd == IF snapshot = None THEN mountpoint(name) ELSE snapshot
        IN /\ (snapshot # None /\ snapshot \notin dir) => result = "raised"
           /\ calls' = Append(calls, <<"backup", name, cwd, result>>)
           /\ CASE result = "ok" -> pc' = "prune_backups" /\ UNCHANGED messages
                [] result = "failed" -> after_failed_backup(name)
                [] result = "raised" -> pc' = "raise:backup" /\ UNCHANGED messages
    /\ UNCHANGED <<dir, prune_vars, backup_only, snapshot_dir_mounted, i,
                   backup_config, emitted>>

\* mutant of after_failed_prune_backups: the return code of borg prune is
\* not checked
after_failed_prune_backups_unchecked ==
    /\ phase2_next
    /\ UNCHANGED prune_vars

\* what follows a failed borg prune: run(..., check=True) raises
after_failed_prune_backups ==
    /\ pc' = "raise:prune_backups"
    /\ UNCHANGED <<i, prune_vars>>

\* lines 243-248 with prune_backups (lines 104-121) and the entry of
\* prune_snapshots
phase2_prune_backups ==
    /\ pc = "prune_backups"
    /\ \E ok \in BOOLEAN :
        LET name == config_names[i]
        IN /\ calls' = Append(calls, <<"prune_backups", name, ok>>)
           /\ IF ~ok
              THEN after_failed_prune_backups
              ELSE IF backup_config[name].fstype \in snapshotable_fstypes
              THEN /\ \E list \in listdir_orders(
                            matching(dir, backup_config[name].subvolume_name)) :
                        prune_snapshots_call(list)
                   /\ UNCHANGED <<now, wanted_snapshots, i>>
              ELSE /\ phase2_next
                   /\ UNCHANGED prune_vars
    /\ UNCHANGED <<dir, backup_only, snapshot_dir_mounted, backup_config,
                   messages, emitted>>

\* prune_snapshots returns: the end of the loop of line 156
phase2_pruned ==
    /\ pc = "prune_delete"
    /\ del_idx > Len(snapshots)
    /\ phase2_next
    /\ UNCHANGED <<dir, calls, prune_vars, backup_only, snapshot_dir_mounted,
                   backup_config, messages, emitted>>

\* mutant of summary: the run ends without repeating the warnings
summary_silent ==
    /\ pc = "summary"
    /\ emitted' = << >>
    /\ pc' = "done"
    /\ UNCHANGED <<dir, calls, prune_vars, backup_only, snapshot_dir_mounted, i,
                   backup_config, messages>>

\* lines 250-252
summary ==
    /\ pc = "summary"
    /\ emitted' = messages
    /\ pc' = "done"
    /\ UNCHANGED <<dir, calls, prune_vars, backup_only, snapshot_dir_mounted, i,
                   backup_config, messages>>

\* the script is run again 6h after a run that ended normally, with the same
\* command line, on the snapshot root that run left
next_run ==
    /\ pc = "done"
    /\ now \in RunNows
    /\ pc' = "start"
    /\ now' = now + SeriesStep
    /\ snapshot_dir_mounted' \in BOOLEAN
    /\ i' = 1
    /\ backup_config' = [name \in Range(config_names) |-> Unresolved]
    /\ messages' = << >>
    /\ emitted' = << >>
    /\ calls' = << >>
    /\ snapshots' = << >>
    /\ actual_timestamps' = << >>
    /\ keep_timestamps' = << >>
    /\ last_kept_timestamp' = now'
    /\ next_idx' = 1
    /\ del_idx' = 1
    /\ targets' = << >>
    /\ prev_snapshots' = << >>
    /\ prev_keep' = << >>
    /\ round' = 0
    /\ UNCHANGED <<dir, wanted_snapshots, backup_only>>

Next ==
    \/ start
    \/ phase1_skip
    \/ phase1_no_fstype
    \/ phase1_snapshot
    \/ phase1_unsupported
    \/ phase2_skip
    \/ phase2_backup
    \/ phase2_prune_backups
    \/ prune_loop
    \/ prune_delete
    \/ phase2_pruned
    \/ summary
    \/ next_run

Spec == Init /\ [][Next]_vars

----------------------------------------------------------------------------
(* Properties of the retention computation (SpecRetention) *)

\* the loop over wanted_snapshots of the current call has ended
LoopEnded ==
    round >= 1 /\ pc \in {"prune_delete", "returned", "raise:prune_snapshots"}

CodePolicy == wanted_snapshots = WantedSnapshots(daily, weekly, monthly)

\* t is a usable candidate for target: closest can return it
WithinReach(target, t) == t # 0 /\ abs(target - t) < target

\* C1: after a candidate is chosen for a label the anchor advances to it:
\* the target of every label after the first is (the timestamp kept for the
\* previous label) - duration(label), not now - duration(label).
C1_TelescopingChain ==
    \A k \in 2..Len(targets) :
        targets[k] = keep_timestamps[k - 1] - time_intervals[wanted_snapshots[k]]

\* what the code computes instead: every target is now - duration(label)
C1_TargetsFromNow ==
    \A k \in 1..Len(targets) :
        targets[k] = now - time_intervals[wanted_snapshots[k]]

C2_Scenario ==
    /\ round = 1
    /\ now = 1000000
    /\ wanted_snapshots = WantedSnapshots(2, 1, 0)
    /\ Range(snapshots) = {Name("ROOT", 999900), Name("ROOT", 913000), Name("ROOT", 395000)}

C8_StopsAtFirstGap ==
    /\ Len(targets) <= Len(keep_timestamps) + 1
    /\ LoopEnded =>
        /\ \/ Len(keep_timestamps) = Len(wanted_snapshots)
           \/ /\ Len(targets) = Len(keep_timestamps) + 1
              /\ \A t \in Range(actual_timestamps) :
                    ~WithinReach(targets[Len(targets)], t)
        /\ (\A s \in Range(snapshots) :
                ~WithinReach(now - time_intervals[wanted_snapshots[1]], timestamp_of(s)))
            => (keep_timestamps = << >> /\ Len(targets) = 1)

\* nothing is within reach of the first label although a kept-back timestamp
\* is within reach of the target of a later label
C8_Witness ==
    /\ pc = "returned"
    /\ round = 1
    /\ keep_timestamps = << >>
    /\ Len(targets) = 1
    /\ Len(snapshots) >= 2

C8_WitnessEmpty ==
    pc = "returned" /\ round = 1 /\ snapshots = << >> /\ Len(targets) = 1

\* C9: the keep-set is a subset of the existing timestamps, holds each
\* timestamp once, and has at most 17 elements (7 daily + 4 weekly + 6 monthly).
C9_KeepSetBounded ==
    /\ Range(keep_timestamps) \subseteq {timestamp_of(s) : s \in Range(snapshots)}
    /\ Cardinality(Range(keep_timestamps)) = Len(keep_timestamps)
    /\ Len(keep_timestamps) <= Len(wanted_snapshots)
    /\ CodePolicy => Len(keep_timestamps) <= 17

\* seventeen of eighteen snapshots are kept
C9_Witness ==
    /\ pc = "returned"
    /\ CodePolicy
    /\ Len(keep_timestamps) = 17
    /\ Len(snapshots) = 18

\* the second call lists what the first call left, in the order the first
\* call saw it
SameOrder ==
    LET left(s) == s \in Range(snapshots)
    IN snapshots = SelectSeq(prev_snapshots, left)

\* C10 as stated: the keep-set computed from the keep-set K (same now, same
\* policy) is exactly K.
C10_Idempotent ==
    (round = 2 /\ LoopEnded /\ CodePolicy) =>
        Range(keep_timestamps) = Range(prev_keep)

\* C10 amended: the keep-set computed from K is exactly K when the surviving
\* snapshots are listed in the same relative order as before.
C10_IdempotentSameOrder ==
    (round = 2 /\ LoopEnded /\ SameOrder) => keep_timestamps = prev_keep

\* the first call pruned something, and the second kept all it was given
C10_Witness ==
    /\ round = 2
    /\ pc = "returned"
    /\ CodePolicy
    /\ SameOrder
    /\ Len(prev_snapshots) > Len(snapshots)
    /\ Len(keep_timestamps) >= 2

\* the third computation: on the first listing without its most recent snapshot
WithoutLatest == round = 3 /\ LoopEnded

\* nothing kept now is more recent than the most recent timestamp kept before
NothingMoreRecent ==
    \A t \in Range(keep_timestamps) : \E u \in Range(prev_keep) : t <= u

\* C11 as stated: with K the keep-set of a non-empty E and K' the keep-set of
\* E without its most recent timestamp (same now), K' contains no timestamp
\* more recent than the most recent timestamp of K.
C11_Monotonic == WithoutLatest => NothingMoreRecent

\* C11 amended: K' contains no timestamp more recent than the most recent
\* timestamp of K when the remaining snapshots are listed in the same relative
\* order as before; K' is then K itself unless the most recent timestamp of E
\* was in K.
C11_MonotonicSameOrder ==
    (WithoutLatest /\ SameOrder) =>
        /\ NothingMoreRecent
        /\ timestamp_of(Latest(prev_snapshots)) \notin Range(prev_keep)
              => keep_timestamps = prev_keep

\* the most recent snapshot was not kept, others were, under the script's policy
C11_Witness ==
    /\ WithoutLatest
    /\ pc = "returned"
    /\ SameOrder
    /\ CodePolicy
    /\ timestamp_of(Latest(prev_snapshots)) \notin Range(prev_keep)
    /\ Len(keep_timestamps) >= 7

\* the pool at the k-th lookup of the current call: the timestamps of the
\* listing, in its order, without those kept by the lookups before
PoolAt(k) ==
    LET unclaimed(t) == \A j \in 1..(k - 1) : keep_timestamps[j] # t
    IN SelectSeq([j \in 1..Len(snapshots) |-> timestamp_of(snapshots[j])], unclaimed)

\* the least |target - c| over the elements c of a non-empty pool
MinDistance(target, pool) ==
    CHOOSE d \in {abs(target - pool[j]) : j \in 1..Len(pool)} :
        \A j \in 1..Len(pool) : d <= abs(target - pool[j])

\* the first element of a non-empty pool at the least distance
FirstAtMinimum(target, pool) ==
    LET d == MinDistance(target, pool)
    IN pool[CHOOSE j \in 1..Len(pool) :
                /\ abs(target - pool[j]) = d
                /\ \A h \in 1..(j - 1) : abs(target - pool[h]) # d]

\* C17: closest returns the first element, in iteration order, among the
\* pool elements of minimum distance to the target, provided that distance is
\* strictly below the target, and nothing otherwise; it never returns 0, and a
\* later candidate at equal distance never replaces an earlier one. Stated
\* of the latest lookup, which every lookup is in the state it leads to.
C17_ClosestFirstMinimum ==
    /\ \A k \in {Len(keep_timestamps)} \ {0} :
          LET pool == PoolAt(k)
          IN /\ pool # << >>
             /\ MinDistance(targets[k], pool) < targets[k]
             /\ keep_timestamps[k] = FirstAtMinimum(targets[k], pool)
             /\ keep_timestamps[k] # 0
    /\ Len(targets) > Len(keep_timestamps) =>
          LET pool == PoolAt(Len(targets))
          IN pool = << >> \/ MinDistance(targets[Len(targets)], pool) >= targets[Len(targets)]

\* a lookup chose between two candidates at the same distance from its
\* target, and the other one was never claimed
C17_Witness ==
    /\ LoopEnded
    /\ \E k \in 1..Len(keep_timestamps) :
          \E y \in Range(actual_timestamps) :
              /\ y # keep_timestamps[k]
              /\ abs(targets[k] - y) = abs(targets[k] - keep_timestamps[k])

\* the pool holds the timestamp 0 and nothing else: nothing is returned
C17_WitnessZero ==
    /\ LoopEnded
    /\ snapshots = <<Name("ROOT", 0)>>
    /\ keep_timestamps = << >>
    /\ Len(targets) = 1

\* now is above twice the longest duration and every listed timestamp is in
\* 1..now
AllWithinReach ==
    /\ now > 2 * time_intervals["month"]
    /\ \A s \in Range(snapshots) : 0 < timestamp_of(s) /\ timestamp_of(s) <= now

\* C19: when now > 4838400 and every existing timestamp is in 1..now, the
\* script's policy keeps exactly min(|existing|, 17) timestamps, and a
\* directory of at most 17 snapshots has none of them deleted.
C19_KeepsAllUpTo17 ==
    (LoopEnded /\ CodePolicy /\ AllWithinReach) =>
        /\ Len(keep_timestamps) =
              (IF Len(snapshots) < 17 THEN Len(snapshots) ELSE 17)
        /\ Len(snapshots) <= 17 =>
              /\ \A s \in Range(snapshots) : ~not_kept(timestamp_of(s), keep_timestamps)
              /\ Range(snapshots) \subseteq dir

\* seventeen snapshots, the last monthly lookup claims the one taken at now,
\* whose distance from the target is one below the target
C19_Witness ==
    /\ pc = "returned"
    /\ CodePolicy
    /\ AllWithinReach
    /\ Len(snapshots) = 17
    /\ Len(keep_timestamps) = 17
    /\ keep_timestamps[17] = now
    /\ targets[17] = now - targets[17] + 1

\* eighteen snapshots, one is deleted
C19_WitnessPruned ==
    /\ pc = "returned"
    /\ CodePolicy
    /\ AllWithinReach
    /\ Len(snapshots) = 18
    /\ Len(keep_timestamps) = 17
    /\ Cardinality(dir) = 17

----------------------------------------------------------------------------
(* Properties of a run (Spec) *)

\* the commands of the second loop: borg create, borg prune, btrfs subvolume delete
Phase2Commands == {"backup", "prune_backups", "delete"}

\* position of a target in the configuration
IndexOf(name) == CHOOSE k \in 1..NumTargets : config_names[k] = name

Count(seq, x) == Cardinality({k \in 1..Len(seq) : seq[k] = x})

\* the first loop has dealt with the target before the k-th command: its
\* snapshot was created, or the warning about its filesystem recorded
Phase1Done(name, k) ==
    IF backup_config[name].fstype \in snapshotable_fstypes
    THEN \E j \in 1..(k - 1) : calls[j] = <<"snapshot", name, TRUE>>
    ELSE /\ backup_config[name].fstype # ""
         /\ UnsupportedMessage(backup_config[name].fstype, mountpoint(name))
                \in Range(messages)

\* C3: the first loop has dealt with every selected target before the backup
\* of any target begins: no backup, archive prune or snapshot deletion runs
\* while a selected target has not been snapshotted, and no snapshot is
\* created after one of them.
C3_SnapshotsBeforeBackups ==
    \A k \in 1..Len(calls) :
        calls[k][1] \in Phase2Commands =>
            /\ \A name \in Range(config_names) :
                    ~skipped(name) => Phase1Done(name, k)
            /\ \A j \in k..Len(calls) : calls[j][1] # "snapshot"

\* two targets were snapshotted and both were backed up
C3_Witness ==
    /\ pc = "done"
    /\ Cardinality({k \in 1..Len(calls) : calls[k][1] = "snapshot"}) >= 2
    /\ Cardinality({k \in 1..Len(calls) : calls[k][1] = "backup"}) >= 2

\* C4: a backup that returns failure is recoverable: one warning naming the
\* target is recorded, the archive prune of the same target comes next, and a
\* run that ends normally has backed up and pruned every selected target.
C4_BackupFailureRecoverable ==
    /\ \A k \in 1..Len(calls) :
          (calls[k][1] = "backup" /\ calls[k][4] = "failed") =>
              LET name == calls[k][2]
              IN /\ Count(messages, BackupMessage(name)) = 1
                 /\ IF k = Len(calls)
                    THEN pc = "prune_backups" /\ config_names[i] = name
                    ELSE calls[k + 1][1] = "prune_backups" /\ calls[k + 1][2] = name
    /\ \A name \in Range(config_names) :
          (Count(messages, BackupMessage(name)) > 0) =>
              \E k \in 1..Len(calls) :
                  calls[k][1] = "backup" /\ calls[k][2] = name /\ calls[k][4] = "failed"
    /\ pc = "done" =>
          \A name \in Range(config_names) :
              ~skipped(name) =>
                  /\ \E k \in 1..Len(calls) : calls[k][1] = "backup" /\ calls[k][2] = name
                  /\ <<"prune_backups", name, TRUE>> \in Range(calls)

\* the backup of the first target failed, the second target was backed up and
\* the run ended normally
C4_Witness ==
    /\ pc = "done"
    /\ \E k \in 1..Len(calls) :
          /\ calls[k][1] = "backup" /\ calls[k][2] = config_names[1]
          /\ calls[k][4] = "failed"
    /\ \E k \in 1..Len(calls) :
          calls[k][1] = "backup" /\ calls[k][2] = config_names[2]
    /\ emitted = <<BackupMessage(config_names[1])>>

\* C5: a failed snapshot creation aborts the run: it is the last command of
\* the run, no backup, archive prune or snapshot deletion has run, and no
\* later target has a snapshot.
C5_SnapshotFailureAborts ==
    \A k \in 1..Len(calls) :
        (calls[k][1] = "snapshot" /\ ~calls[k][3]) =>
            /\ k = Len(calls)
            /\ pc = "raise:snapshot"
            /\ \A j \in 1..Len(calls) : calls[j][1] \notin Phase2Commands
            /\ \A name \in Range(config_names) :
                  IndexOf(name) > IndexOf(calls[k][2]) =>
                      /\ backup_config[name] = Unresolved
                      /\ \A j \in 1..Len(calls) : calls[j][2] # name

\* the snapshot of the first target fails and a second target is selected
C5_Witness ==
    /\ pc = "raise:snapshot"
    /\ calls = <<<<"snapshot", config_names[1], FALSE>>>>
    /\ ~skipped(config_names[2])

\* the subvolume name of the target whose snapshots are being pruned
PrunedName == backup_config[config_names[i]].subvolume_name

\* prune_snapshots is running for the target config_names[i]
Pruning == round >= 1 /\ pc \in {"prune_loop", "prune_delete", "raise:prune_snapshots"}

\* C12: the snapshot prune of a target deletes exactly the entries named
\* <its subvolume name>-<timestamp> whose timestamp is not in the keep-set
\* computed from its own timestamps: the entries of another name are not
\* listed, so they are neither deleted by it nor considered for its keep-set.
C12_PrunesOwnSnapshotsOnly ==
    /\ Pruning =>
          /\ \A s \in Range(snapshots) : s[1] = PrunedName
          /\ pc = "prune_delete" =>
                \A j \in 1..(del_idx - 1) :
                    snapshots[j] \in dir <=> ~not_kept(timestamp_of(snapshots[j]), keep_timestamps)
    /\ \A k \in 1..Len(calls) :
          calls[k][1] = "delete" =>
              \E j \in 1..(k - 1) :
                  /\ calls[j][1] = "prune_backups"
                  /\ \A h \in (j + 1)..(k - 1) : calls[h][1] = "delete"
                  /\ calls[k][2][1] = backup_config[calls[j][2]].subvolume_name

\* what the code does: the entries listed are those whose name matches the
\* target's subvolume name taken as a pattern
C12_PrunesMatchingSnapshots ==
    Pruning =>
        \A s \in Range(snapshots) : regex_match(Chars(PrunedName), Chars(s[1]))

\* a failed borg prune or btrfs subvolume delete
FatalInPhase2(c) == c[1] \in {"prune_backups", "delete"} /\ ~c[3]

\* the snapshot created for a target in this run, unless it was deleted since
CreatedAndNotDeleted ==
    {backup_config[calls[k][2]].snapshot :
        k \in {j \in 1..Len(calls) : calls[j][1] = "snapshot" /\ calls[j][3]}}
    \ {calls[k][2] : k \in {j \in 1..Len(calls) : calls[j][1] = "delete" /\ calls[j][3]}}

\* C6: a failed archive prune or snapshot deletion stops the run at once: it
\* is the last command of the run, the run has raised and not reached the
\* summary, and the snapshots created and not pruned are still there.
C6_FatalInPhase2Stops ==
    \A k \in 1..Len(calls) :
        FatalInPhase2(calls[k]) =>
            /\ k = Len(calls)
            /\ pc \in {"raise:prune_backups", "raise:prune_snapshots"}
            /\ emitted = << >>
            /\ CreatedAndNotDeleted \subseteq dir

\* the archive prune of the first target fails after two snapshots were made
C6_Witness ==
    /\ pc = "raise:prune_backups"
    /\ i = 1
    /\ Cardinality(CreatedAndNotDeleted) = 2
    /\ messages # << >>

\* the deletion of a snapshot fails after another one was deleted
C6_WitnessDelete ==
    /\ pc = "raise:prune_snapshots"
    /\ \E k \in 1..Len(calls) : calls[k][1] = "delete" /\ calls[k][3]

\* C7 as stated: a configuration error aborts the run before any work: no
\* snapshot has been created and no backup or prune has run, wherever the
\* misconfigured target stands in the configuration.
C7_ConfigurationErrorBeforeAnyWork ==
    pc \in {"raise:snapshot_dir", "raise:filesystem_type"} => calls = << >>

\* C7 amended: a configuration error aborts the run before any backup, archive
\* prune or snapshot deletion; when the snapshot root is no mount point no
\* snapshot has been created either, but when the mount point of a target
\* cannot be classified the snapshots of the selected snapshotable targets
\* before it have been created.
C7_ConfigurationErrorBeforeBackups ==
    /\ pc = "raise:snapshot_dir" => calls = << >>
    /\ pc = "raise:filesystem_type" =>
          /\ \A k \in 1..Len(calls) :
                /\ calls[k][1] = "snapshot"
                /\ calls[k][3]
                /\ IndexOf(calls[k][2]) < i
          /\ \A j \in 1..(i - 1) :
                LET name == config_names[j]
                IN (~skipped(name) /\ backup_config[name].fstype \in snapshotable_fstypes)
                      => /\ <<"snapshot", name, TRUE>> \in Range(calls)
                         /\ backup_config[name].snapshot \in dir

\* the second target cannot be classified after the first was snapshotted
C7_Witness ==
    /\ pc = "raise:filesystem_type"
    /\ i = 2
    /\ Len(calls) = 1

\* the first loop found the target on a filesystem that cannot be snapshotted
Unsupported(name) ==
    /\ backup_config[name].fstype # ""
    /\ backup_config[name].fstype \notin snapshotable_fstypes

\* the positions in calls of the commands of a kind run for a target
CallsOf(kind, name) ==
    {k \in 1..Len(calls) : calls[k][1] = kind /\ calls[k][2] = name}

\* C13: a selected target on an unsupported filesystem has exactly one warning
\* recorded that names its mount point and its filesystem type, gets no
\* snapshot and no snapshot prune, and is backed up from its live mount point,
\* the archive prune following the backup.
C13_UnsupportedFilesystem ==
    \A name \in Range(config_names) :
        Unsupported(name) =>
            /\ Count(messages,
                     UnsupportedMessage(backup_config[name].fstype, mountpoint(name))) = 1
            /\ CallsOf("snapshot", name) = {}
            /\ backup_config[name].snapshot = None
            /\ Cardinality(CallsOf("backup", name)) <= 1
            /\ \A k \in CallsOf("backup", name) :
                  /\ calls[k][3] = mountpoint(name)
                  /\ calls[k][4] # "raised" =>
                        IF k = Len(calls)
                        THEN pc = "prune_backups" /\ config_names[i] = name
                        ELSE calls[k + 1][1] = "prune_backups" /\ calls[k + 1][2] = name
            /\ \A k \in CallsOf("prune_backups", name) :
                  IF k = Len(calls)
                  THEN ~Pruning
                  ELSE calls[k + 1][1] # "delete"
            /\ pc = "done" =>
                  /\ CallsOf("backup", name) # {}
                  /\ CallsOf("prune_backups", name) # {}

\* the first target is on ext4 and has old snapshots in the snapshot root, the
\* second is on btrfs; the run ended normally
C13_Witness ==
    /\ pc = "done"
    /\ Unsupported(config_names[1])
    /\ ~Unsupported(config_names[2])
    /\ dir # {}
    /\ <<"backup", config_names[1], mountpoint(config_names[1]), "ok">> \in Range(calls)
    /\ <<"prune_backups", config_names[1], TRUE>> \in Range(calls)
    /\ emitted = <<UnsupportedMessage("ext4", mountpoint(config_names[1]))>>

\* the subvolume names of the targets the run has snapshotted
SelectedSubvolumeNames ==
    {backup_config[name].subvolume_name : name \in Range(config_names)} \ {""}

\* C14: with a filter, a target outside the filter is skipped in both loops:
\* it is not classified, not snapshotted, not backed up and not pruned, no
\* warning is about it, and no snapshot of a subvolume that is not the
\* subvolume of a selected target is deleted.
C14_FilteredOutUntouched ==
    \A name \in Range(config_names) :
        skipped(name) =>
            /\ backup_config[name] = Unresolved
            /\ \A k \in 1..Len(calls) :
                  /\ calls[k][1] # "delete" => calls[k][2] # name
                  /\ (calls[k][1] = "delete" /\ calls[k][3]) =>
                        calls[k][2][1] \in SelectedSubvolumeNames
            /\ \A k \in 1..Len(messages) :
                  /\ messages[k] # BackupMessage(name)
                  /\ messages[k][1] = "not supported" => messages[k][3] # mountpoint(name)

\* what the code guarantees for a target outside the filter: no command is
\* run for it and no warning is about it
C14_FilteredOutNotProcessed ==
    \A name \in Range(config_names) :
        skipped(name) =>
            /\ backup_config[name] = Unresolved
            /\ \A k \in 1..Len(calls) : calls[k][1] # "delete" => calls[k][2] # name
            /\ \A k \in 1..Len(messages) :
                  /\ messages[k] # BackupMessage(name)
                  /\ messages[k][1] = "not supported" => messages[k][3] # mountpoint(name)

\* the warnings of a run in the order they are recorded: those of the first
\* loop about unsupported filesystems, then those of the second loop about
\* failed backups, each in the order of the configuration
ExpectedMessages ==
    LET unsupported(name) == ~skipped(name) /\ Unsupported(name)
        failed(name) ==
            \E k \in CallsOf("backup", name) : calls[k][4] = "failed"
        first == SelectSeq(config_names, unsupported)
        second == SelectSeq(config_names, failed)
    IN [k \in 1..Len(first) |->
            UnsupportedMessage(backup_config[first[k]].fstype, mountpoint(first[k]))]
       \o [k \in 1..Len(second) |-> BackupMessage(second[k])]

\* C16: a run that finishes both loops without raising repeats every recorded
\* warning once, in the order recorded, after the last command of the last
\* target, and ends normally whatever the warnings; nothing is repeated
\* before, nor when the run raises.
C16_WarningsRepeatedAtEnd ==
    /\ pc = "done" =>
          /\ emitted = messages
          /\ messages = ExpectedMessages
          /\ i = NumTargets + 1
    /\ pc # "done" => emitted = << >>

\* three warnings of both kinds are repeated at the end of a run
C16_Witness ==
    /\ pc = "done"
    /\ emitted = <<UnsupportedMessage("ext4", mountpoint(config_names[1])),
                   BackupMessage(config_names[1]),
                   BackupMessage(config_names[2])>>

\* the target is on a filesystem that can be snapshotted
Snapshotable(name) == backup_config[name].fstype \in snapshotable_fstypes

\* C18: in the second loop each selected target goes once through backup,
\* archive prune and, only if it is snapshotable, snapshot prune, in this
\* order and without a retry; the steps of a target have ended before the
\* backup of the next target starts; the backup of a snapshotable target runs
\* in the snapshot made for it by the first loop of the same run.
C18_Phase2StepsInOrder ==
    /\ \A name \in Range(config_names) :
          /\ Cardinality(CallsOf("backup", name)) <= 1
          /\ Cardinality(CallsOf("prune_backups", name)) <= 1
    /\ \A k \in 1..Len(calls) :
          /\ calls[k][1] = "backup" =>
                LET name == calls[k][2]
                IN /\ \A j \in 1..(k - 1) :
                         calls[j][1] \in {"backup", "prune_backups"} =>
                             IndexOf(calls[j][2]) < IndexOf(name)
                   /\ k > 1 =>
                         \/ calls[k - 1][1] = "snapshot"
                         \/ calls[k - 1][1] \in {"prune_backups", "delete"} /\ calls[k - 1][3]
                   /\ Snapshotable(name) =>
                         /\ calls[k][3] = Name(backup_config[name].subvolume_name, now)
                         /\ \E j \in 1..(k - 1) : calls[j] = <<"snapshot", name, TRUE>>
                         /\ (k = Len(calls) /\ calls[k][4] # "raised") => calls[k][3] \in dir
                   /\ ~Snapshotable(name) => calls[k][3] = mountpoint(name)
          /\ calls[k][1] = "prune_backups" =>
                /\ k > 1
                /\ calls[k - 1][1] = "backup"
                /\ calls[k - 1][2] = calls[k][2]
                /\ calls[k - 1][4] # "raised"
          /\ calls[k][1] = "delete" =>
                \E j \in 1..(k - 1) :
                    /\ calls[j][1] = "prune_backups"
                    /\ calls[j][3]
                    /\ Snapshotable(calls[j][2])
                    /\ \A h \in (j + 1)..(k - 1) : calls[h][1] = "delete" /\ calls[h][3]
    /\ round = Cardinality({name \in Range(config_names) :
                   Snapshotable(name) /\ <<"prune_backups", name, TRUE>> \in Range(calls)})
    /\ pc \in {"prune_backups", "prune_loop", "prune_delete"} =>
          /\ CallsOf("backup", config_names[i]) # {}
          /\ \A j \in (i + 1)..NumTargets : CallsOf("backup", config_names[j]) = {}
    /\ pc \in {"phase2", "summary", "done"} =>
          /\ round >= 1 => del_idx > Len(snapshots)
          /\ \A j \in 1..NumTargets :
                IF j < i /\ ~skipped(config_names[j])
                THEN <<"prune_backups", config_names[j], TRUE>> \in Range(calls)
                ELSE /\ CallsOf("backup", config_names[j]) = {}
                     /\ CallsOf("prune_backups", config_names[j]) = {}

\* two snapshotable targets were backed up from their snapshots and pruned,
\* an old snapshot was deleted, and the run ended normally
C18_Witness ==
    /\ pc = "done"
    /\ round = 2
    /\ \A name \in {config_names[1], config_names[2]} :
          \E k \in CallsOf("backup", name) : calls[k][3] = backup_config[name].snapshot
    /\ \E k \in 1..Len(calls) : calls[k][1] = "delete"

\* C20 as stated: the snapshot made by the first loop (timestamp now) is
\* never deleted by a snapshot prune of the same run: now is in every keep-set
\* computed by the second loop.
C20_NewSnapshotNeverDeleted ==
    /\ (round >= 1 /\ pc = "prune_delete") => now \in Range(keep_timestamps)
    /\ \A k \in 1..Len(calls) :
          calls[k][1] = "delete" => timestamp_of(calls[k][2]) # now

\* the listing is short enough for a lookup to reach the snapshot taken at
\* now: at most 7 entries when now is within reach of the daily target, at
\* most 17 entries when it is within reach of all three targets
FewSnapshots ==
    \/ Len(snapshots) <= daily /\ now > 2 * time_intervals["day"]
    \/ Len(snapshots) <= daily + weekly + monthly /\ now > 2 * time_intervals["month"]

\* C20 amended: the snapshot made by the first loop is in the keep-set of a
\* snapshot prune of the same run, and is not deleted by it, when that prune
\* lists at most 7 entries and now > 172800, or at most 17 entries and
\* now > 4838400.
C20_NewSnapshotKeptAmongFew ==
    (round >= 1 /\ pc = "prune_delete" /\ FewSnapshots) =>
        /\ now \in Range(keep_timestamps)
        /\ \A j \in 1..(del_idx - 1) :
              timestamp_of(snapshots[j]) = now => snapshots[j] \in dir

\* a prune has deleted an old snapshot and kept the one made by this run
C20_Witness ==
    /\ round >= 1
    /\ pc = "prune_delete"
    /\ del_idx > Len(snapshots)
    /\ FewSnapshots
    /\ calls[Len(calls)][1] = "delete"
    /\ calls[Len(calls)][3]
    /\ backup_config[config_names[i]].snapshot \in dir

\* ten snapshots and a large now: all are kept
C20_WitnessTen ==
    /\ round >= 1
    /\ pc = "prune_delete"
    /\ del_idx > Len(snapshots)
    /\ Len(snapshots) = 10
    /\ Len(keep_timestamps) = 10

\* the snapshots of a subvolume name in the snapshot root
SnapshotsOf(subvolume_name) == {s \in dir : s[1] = subvolume_name}

\* C15: at the end of every run that ends normally, the first or a later one,
\* each snapshotable target the run processed has at most 17 snapshots left
\* in the snapshot root.
C15_AtMost17Left ==
    pc = "done" =>
        \A name \in Range(config_names) :
            (~skipped(name) /\ Snapshotable(name)) =>
                Cardinality(SnapshotsOf(backup_config[name].subvolume_name)) <= 17

\* a second run found 18 snapshots of a target and left 17
C15_Witness ==
    /\ pc = "done"
    /\ now \notin RunNows
    /\ Len(snapshots) = 18
    /\ calls[Len(calls)][1] = "delete"
    /\ \E name \in Range(config_names) :
          /\ ~skipped(name)
          /\ Snapshotable(name)
          /\ Cardinality(SnapshotsOf(backup_config[name].subvolume_name)) = 17

====
